---- MODULE Spec2Model ----
(***************************************************************************)
(* Rose Glass perception engine of the CERATA project:                     *)
(*   - RoseGlassService (services/rose-glass/rose-glass.service.ts):       *)
(*     the lens registry, calculateCoherence and perceive;                 *)
(*   - optimizeQ (services/rose-glass/biological-optimization.ts).         *)
(*                                                                         *)
(* Numbers.  The code computes on JavaScript numbers.  The model computes  *)
(* on exact rationals and keeps the two IEEE outcomes of a division by     *)
(* zero that optimizeQ can produce (x/0 = +Infinity, x/Infinity = 0);      *)
(* rounding of doubles is not modelled.  Units:                            *)
(*   psi, rho, q, f                 tenths        (7 is 0.7)               *)
(*   tau, lambda, Km, Ki, weights   thousandths   (700 is 0.7)             *)
(*   coherence, qOptimized          a Num: [m, r, d] is the rational       *)
(*                                  (m + r/d) / 10^6 with 0 <= r < d and   *)
(*                                  r/d in lowest terms; d = 0 is          *)
(*                                  +Infinity.                             *)
(* Every rational has exactly one Num, so equality of Nums is equality of  *)
(* the numbers, and a Num compares exactly with any multiple of 10^-6.     *)
(***************************************************************************)
EXTENDS Integers, Sequences, FiniteSets, TLC

VARIABLES
    lenses,      \* RoseGlassService.lenses: Map<string, LensCalibration>
    dimensions,  \* the dimensions argument of this behaviour's calls
    kinetics,    \* the arguments (q, Km, Ki) of this behaviour's direct optimizeQ calls
    last,        \* the last completed call: its operation, argument and outcome
    held,        \* a report the caller has kept (the service keeps none), with
                 \* the registry it was made under
    hunts,       \* the executions of cerata_hunt_repo: where each one stands
    storage,     \* StorageService, tenant 'cerata-system'
    statuses,    \* the invocations of cerata_get_status: where each one stands
    python       \* a call of a lens tool: its executePythonScript and child

vars == <<lenses, dimensions, kinetics, last, held, hunts, storage, statuses, python>>

(***************************************************************************)
(* Exact arithmetic                                                        *)
(***************************************************************************)
Micro == 1000 * 1000

RECURSIVE GCD(_, _)
GCD(a, b) == IF b = 0 THEN a ELSE GCD(b, a % b)

\* <<floor(r * 10^k / d), (r * 10^k) mod d>> for 0 <= r < d, by long division
RECURSIVE Scale(_, _, _)
Scale(r, d, k) ==
    IF k = 0 THEN <<0, r>>
    ELSE LET t == 10 * r
             s == Scale(t % d, d, k - 1)
         IN  <<(t \div d) * (10 ^ (k - 1)) + s[1], s[2]>>

\* the rational n / d (d > 0) as a Num
Frac(n, d) ==
    LET s == Scale(n % d, d, 6)
        g == GCD(s[2], d)
    IN  [m |-> (n \div d) * Micro + s[1], r |-> s[2] \div g, d |-> d \div g]

\* the number k / 10^6 as a Num
MicroNum(k) == [m |-> k, r |-> 0, d |-> 1]

Infinity == [m |-> 0, r |-> 1, d |-> 0]

IsFinite(x) == x.d # 0

\* x < k / 10^6,  x <= k / 10^6
NumLt(x, k) == IsFinite(x) /\ x.m < k
NumLe(x, k) == IsFinite(x) /\ (x.m < k \/ (x.m = k /\ x.r = 0))

\* x + k / 10^6
AddMicro(x, k) == IF IsFinite(x) THEN [x EXCEPT !.m = @ + k] ELSE x

\* Math.max(k / 10^6, x) and Math.min(k / 10^6, x)
MathMax(k, x) == IF NumLe(x, k) THEN MicroNum(k) ELSE x
MathMin(k, x) == IF NumLt(x, k) THEN x ELSE MicroNum(k)

IntMax(a, b) == IF a >= b THEN a ELSE b
IntMin(a, b) == IF a <= b THEN a ELSE b

(***************************************************************************)
(* biological-optimization.ts                                              *)
(***************************************************************************)
ClampedQ == 999

\* Faulty variant: the self-inhibition term (q*q)/Ki is left out of the denominator.
optimizeQ_NoInhibition(q0, Km, Ki) ==
    IF q0 <= 0 THEN MicroNum(0)
    ELSE LET q == IF q0 >= 1000 THEN ClampedQ ELSE q0
             N == Km + q
         IN  IF N = 0 THEN Infinity
             ELSE IF N > 0 THEN Frac(q, N)
             ELSE Frac(0 - q, 0 - N)

\* Faulty variant: no `if (q <= 0) return 0`.
optimizeQ_NoZeroGuard(q0, Km, Ki) ==
    LET q == IF q0 >= 1000 THEN ClampedQ ELSE q0
        N == Km * Ki + q * Ki + q * q
    IN  IF Ki = 0 THEN MicroNum(0)
        ELSE IF N = 0 THEN Infinity
        ELSE IF N > 0 THEN Frac(q * Ki, N)
        ELSE Frac(0 - q * Ki, 0 - N)

\* Faulty variant: no `if (q >= 1) q = 0.999`.
optimizeQ_NoClamp(q0, Km, Ki) ==
    IF q0 <= 0 THEN MicroNum(0)
    ELSE LET N == Km * Ki + q0 * Ki + q0 * q0
         IN  IF Ki = 0 THEN MicroNum(0)
             ELSE IF N = 0 THEN Infinity
             ELSE IF N > 0 THEN Frac(q0 * Ki, N)
             ELSE Frac(0 - q0 * Ki, 0 - N)

\* Faulty variant: the self-inhibition term is q/Ki, linear in q.
optimizeQ_LinearInhibition(q0, Km, Ki) ==
    IF q0 <= 0 THEN MicroNum(0)
    ELSE LET q == IF q0 >= 1000 THEN ClampedQ ELSE q0
             N == Km * Ki + q * Ki + q * 1000
         IN  IF Ki = 0 THEN MicroNum(0)
             ELSE IF N = 0 THEN Infinity
             ELSE IF N > 0 THEN Frac(q * Ki, N)
             ELSE Frac(0 - q * Ki, 0 - N)

\* optimizeQ(q, Km, Ki), all three in thousandths.
\* denominator = Km + q + (q*q)/Ki is the fraction N / (1000 * Ki), so that
\* q / denominator = (q * Ki) / N.
optimizeQ(q0, Km, Ki) ==
    IF q0 <= 0 THEN MicroNum(0)
    ELSE LET q == IF q0 >= 1000 THEN ClampedQ ELSE q0
             N == Km * Ki + q * Ki + q * q
         IN  IF Ki = 0 THEN MicroNum(0)      \* (q*q)/0 = +Infinity; q/+Infinity = 0
             ELSE IF N = 0 THEN Infinity      \* q/0 = +Infinity
             ELSE IF N > 0 THEN Frac(q * Ki, N)
             ELSE Frac(0 - q * Ki, 0 - N)

\* getOptimizationCurve(Km, Ki, steps): the points {q: i/steps, qOpt} for
\* i = 0..steps, as a function of i; q in thousandths (steps divides 1000)
getOptimizationCurve(Km, Ki, steps) ==
    [i \in 0..steps |->
        LET q == (1000 * i) \div steps
        IN  [q |-> q, qOpt |-> optimizeQ(q, Km, Ki)]]

(***************************************************************************)
(* calibrations/code-analysis.ts and types.ts                              *)
(***************************************************************************)
codeAnalysisLens ==
    [name |-> "code-analysis",
     description |-> "Perceives code repository coherence patterns",
     weights |-> [psi |-> 300, rho |-> 300, q |-> 150, f |-> 250],
     biologicalParams |-> [Km |-> 200, Ki |-> 800],
     expectedPatterns |-> <<"error-handling", "type-safety", "test-coverage",
                            "documentation", "consistent-style",
                            "modular-structure", "dependency-hygiene">>]

\* a LensCalibration other than the built-in one
LensCalibration(name, Km, Ki, weights) ==
    [name |-> name,
     description |-> "custom lens",
     weights |-> weights,
     biologicalParams |-> [Km |-> Km, Ki |-> Ki],
     expectedPatterns |-> <<>>]

(***************************************************************************)
(* rose-glass.service.ts: outcomes of a call                               *)
(***************************************************************************)
Return(v) == [kind |-> "return", value |-> v]
Throw(e) == [kind |-> "throw", error |-> e]
Void == "undefined"

(***************************************************************************)
(* rose-glass.service.ts: the lens registry                                *)
(***************************************************************************)
defaultLens == "code-analysis"

\* new Map()
EmptyMap == [n \in {} |-> n]

\* Faulty variant: an identifier already registered keeps its first calibration.
registerLens_KeepFirst(ls, calibration) ==
    [n \in (DOMAIN ls) \cup {calibration.name} |->
        IF n \in DOMAIN ls THEN ls[n] ELSE calibration]

\* this.lenses.set(calibration.name, calibration)
registerLens(ls, calibration) ==
    [n \in (DOMAIN ls) \cup {calibration.name} |->
        IF n = calibration.name THEN calibration ELSE ls[n]]

\* Faulty variant: the constructor registers nothing.
Constructed_Empty == EmptyMap

\* the registry after the constructor
Constructed == registerLens(EmptyMap, codeAnalysisLens)

\* Faulty variant: an unknown identifier falls back to the default lens.
getLens_FallbackToDefault(ls, name) ==
    LET lensName == IF name = <<>> THEN defaultLens ELSE name[1]
    IN  IF lensName \in DOMAIN ls THEN Return(ls[lensName])
        ELSE IF defaultLens \in DOMAIN ls THEN Return(ls[defaultLens])
        ELSE Throw(<<"Unknown lens", lensName>>)

\* name is <<>> for an absent argument and <<n>> for the identifier n
getLens(ls, name) ==
    LET lensName == IF name = <<>> THEN defaultLens ELSE name[1]
    IN  IF lensName \notin DOMAIN ls
        THEN Throw(<<"Unknown lens", lensName>>)
        ELSE Return(ls[lensName])

(***************************************************************************)
(* rose-glass.service.ts: the perception pipeline                          *)
(***************************************************************************)
\* Faulty variant: the two coefficients are swapped.
estimateTemporalDepth_Swapped(d) ==
    LET rawTau == d.rho * 40 + d.psi * 60
    IN  IntMin(1000, IntMax(0, rawTau))

\* Faulty variant: the depth is the product of wisdom and consistency.
estimateTemporalDepth_Product(d) ==
    LET rawTau == d.rho * d.psi * 10
    IN  IntMin(1000, IntMax(0, rawTau))

\* rawTau = rho * 0.6 + psi * 0.4, clamped to [0, 1]; in thousandths
estimateTemporalDepth(d) ==
    LET rawTau == d.rho * 60 + d.psi * 40
    IN  IntMin(1000, IntMax(0, rawTau))

\* Faulty variant: the factor 0.5 is missing.
estimateLensInterference_NoHalf(d) ==
    LET inconsistency == 10 - d.psi
        rawLambda == inconsistency * d.q * 10
    IN  IntMin(1000, IntMax(0, rawLambda))

\* rawLambda = (1.0 - psi) * q * 0.5, clamped to [0, 1]; in thousandths
estimateLensInterference(d) ==
    LET inconsistency == 10 - d.psi
        rawLambda == inconsistency * d.q * 5
    IN  IntMin(1000, IntMax(0, rawLambda))

CoherenceMax == 4
CoherenceMin == 0

\* Faulty variant: the result is not clamped.
calculateCoherence_NoClamp(d, lens) ==
    LET qOptimized == optimizeQ(d.q * 100, lens.biologicalParams.Km,
                                lens.biologicalParams.Ki)
        rest == d.psi * 100000 + d.rho * d.psi * 10000
                    + d.f * d.psi * 10000 + d.tau * d.lambda
    IN  [coherence |-> AddMicro(qOptimized, rest), qOptimized |-> qOptimized]

\* Faulty variant: consistency also multiplies the coupling term.
calculateCoherence_PsiScalesCoupling(d, lens) ==
    LET qOptimized == optimizeQ(d.q * 100, lens.biologicalParams.Km,
                                lens.biologicalParams.Ki)
        \* psi * tau * lambda is (d.psi * d.tau * d.lambda) / 10 in 10^-6
        rest == d.psi * 100000 + d.rho * d.psi * 10000
                    + d.f * d.psi * 10000 + (d.psi * d.tau * d.lambda) \div 10
        rawCoherence == AddMicro(qOptimized, rest)
    IN  [coherence |-> MathMin(CoherenceMax * Micro,
                               MathMax(CoherenceMin * Micro, rawCoherence)),
         qOptimized |-> qOptimized]

\* Faulty variant: consistency is scaled by its weight relative to 0.25.
calculateCoherence_Weighted(d, lens) ==
    LET qOptimized == optimizeQ(d.q * 100, lens.biologicalParams.Km,
                                lens.biologicalParams.Ki)
        rest == d.psi * lens.weights.psi * 400 + d.rho * d.psi * 10000
                    + d.f * d.psi * 10000 + d.tau * d.lambda
        rawCoherence == AddMicro(qOptimized, rest)
    IN  [coherence |-> MathMin(CoherenceMax * Micro,
                               MathMax(CoherenceMin * Micro, rawCoherence)),
         qOptimized |-> qOptimized]

calculateCoherence(d, lens) ==
    LET Km == lens.biologicalParams.Km
        Ki == lens.biologicalParams.Ki
        qOptimized == optimizeQ(d.q * 100, Km, Ki)
        coupling == d.tau * d.lambda
        \* psi + rho * psi + f * psi + coupling, in 10^-6
        rest == d.psi * 100000 + d.rho * d.psi * 10000
                    + d.f * d.psi * 10000 + coupling
        rawCoherence == AddMicro(qOptimized, rest)
        coherence == MathMin(CoherenceMax * Micro,
                             MathMax(CoherenceMin * Micro, rawCoherence))
    IN  [coherence |-> coherence, qOptimized |-> qOptimized]

When(cond, tag) == IF cond THEN <<tag>> ELSE <<>>

\* Faulty variant: the combined patterns are pushed before the single ones.
detectPatterns_CombinedFirst(d, lens) ==
       When(d.psi >= 7 /\ d.rho >= 7, "stable-mature")
    \o When(d.psi <= 3 /\ d.q >= 7, "chaotic-active")
    \o When(d.f >= 7 /\ d.rho >= 7, "ecosystem-anchor")
    \o When(d.psi >= 7, "high-consistency")
    \o When(d.psi <= 3, "low-consistency")
    \o When(d.rho >= 7, "battle-tested")
    \o When(d.rho <= 3, "immature")
    \o When(d.q >= 7, "high-activation")
    \o When(d.q <= 2, "dormant")
    \o When(d.f >= 7, "well-integrated")
    \o When(d.f <= 3, "isolated")
    \o When(d.tau >= 700, "deep-history")
    \o When(d.tau <= 300, "ephemeral")
    \o When(d.lambda >= 500, "observer-interference")

\* Faulty variant: the low-consistency threshold meets the high one at 0.7.
detectPatterns_LowUpToHigh(d, lens) ==
       When(d.psi >= 7, "high-consistency")
    \o When(d.psi <= 7, "low-consistency")
    \o When(d.rho >= 7, "battle-tested")
    \o When(d.rho <= 3, "immature")
    \o When(d.q >= 7, "high-activation")
    \o When(d.q <= 2, "dormant")
    \o When(d.f >= 7, "well-integrated")
    \o When(d.f <= 3, "isolated")
    \o When(d.tau >= 700, "deep-history")
    \o When(d.tau <= 300, "ephemeral")
    \o When(d.lambda >= 500, "observer-interference")
    \o When(d.psi >= 7 /\ d.rho >= 7, "stable-mature")
    \o When(d.psi <= 3 /\ d.q >= 7, "chaotic-active")
    \o When(d.f >= 7 /\ d.rho >= 7, "ecosystem-anchor")

detectPatterns(d, lens) ==
       When(d.psi >= 7, "high-consistency")
    \o When(d.psi <= 3, "low-consistency")
    \o When(d.rho >= 7, "battle-tested")
    \o When(d.rho <= 3, "immature")
    \o When(d.q >= 7, "high-activation")
    \o When(d.q <= 2, "dormant")
    \o When(d.f >= 7, "well-integrated")
    \o When(d.f <= 3, "isolated")
    \o When(d.tau >= 700, "deep-history")
    \o When(d.tau <= 300, "ephemeral")
    \o When(d.lambda >= 500, "observer-interference")
    \o When(d.psi >= 7 /\ d.rho >= 7, "stable-mature")
    \o When(d.psi <= 3 /\ d.q >= 7, "chaotic-active")
    \o When(d.f >= 7 /\ d.rho >= 7, "ecosystem-anchor")

\* Faulty variant: the extreme-activation warning is skipped when the
\* instability warning was issued.
generateWarnings_ElseExtreme(d, coherence) ==
       When(NumLt(coherence, Micro),
            "Low overall coherence - substrate may be unstable")
    \o When(d.psi <= 3 /\ d.q >= 7,
            "High activation with low consistency - potential instability")
    \o When(d.f <= 3 /\ d.rho >= 5,
            "Isolated despite maturity - integration issues")
    \o When(d.lambda >= 600,
            "High observer interference - perception may be distorted")
    \o When(d.q >= 9 /\ ~(d.psi <= 3 /\ d.q >= 7),
            "Extreme activation detected - biological optimization applied")
    \o When(d.tau <= 200 /\ d.rho >= 5,
            "Shallow temporal depth despite accumulated wisdom - anomaly")

generateWarnings(d, coherence) ==
       When(NumLt(coherence, Micro),
            "Low overall coherence - substrate may be unstable")
    \o When(d.psi <= 3 /\ d.q >= 7,
            "High activation with low consistency - potential instability")
    \o When(d.f <= 3 /\ d.rho >= 5,
            "Isolated despite maturity - integration issues")
    \o When(d.lambda >= 600,
            "High observer interference - perception may be distorted")
    \o When(d.q >= 9,
            "Extreme activation detected - biological optimization applied")
    \o When(d.tau <= 200 /\ d.rho >= 5,
            "Shallow temporal depth despite accumulated wisdom - anomaly")

\* Faulty variant: the signal strength is not adjusted for interference.
assessConfidence_NoInterference(d) ==
    LET signal80000 == (d.psi + d.rho + d.q + d.f) * 2000
    IN  IF signal80000 >= 48000 THEN "high"
        ELSE IF signal80000 >= 28000 THEN "medium"
        ELSE "low"

\* signalStrength = (psi + rho + q + f) / 4 and
\* interferenceAdjusted = signalStrength * (1.0 - lambda * 0.5)
\*                      = (psi + rho + q + f) * (2000 - lambda) / 80000
assessConfidence(d) ==
    LET adjusted80000 == (d.psi + d.rho + d.q + d.f) * (2000 - d.lambda)
    IN  IF adjusted80000 >= 48000 THEN "high"          \* >= 0.6
        ELSE IF adjusted80000 >= 28000 THEN "medium"   \* >= 0.35
        ELSE "low"

\* Faulty variant: the raw dimensions are clamped to [0, 1] before use.
perceive_ClampsRaw(ls, d, lensName) ==
    LET got == getLens(ls, lensName)
    IN  IF got.kind = "throw" THEN got
        ELSE
        LET lens == got.value
            c == [k \in DOMAIN d |-> IntMin(10, IntMax(0, d[k]))]
            extended == [psi |-> c.psi, rho |-> c.rho, q |-> c.q, f |-> c.f,
                         tau |-> estimateTemporalDepth(c),
                         lambda |-> estimateLensInterference(c)]
            cc == calculateCoherence(extended, lens)
        IN  Return([lens |-> lens.name,
                    dimensions |-> extended,
                    coherence |-> cc.coherence,
                    qOptimized |-> cc.qOptimized,
                    confidence |-> assessConfidence(extended),
                    patterns |-> detectPatterns(extended, lens),
                    warnings |-> generateWarnings(extended, cc.coherence)])

\* Faulty variant: coherence is computed under the default calibration,
\* whichever calibration was asked for.
perceive_KineticsOfDefault(ls, d, lensName) ==
    LET got == getLens(ls, lensName)
    IN  IF got.kind = "throw" THEN got
        ELSE
        LET lens == got.value
            extended == [psi |-> d.psi, rho |-> d.rho, q |-> d.q, f |-> d.f,
                         tau |-> estimateTemporalDepth(d),
                         lambda |-> estimateLensInterference(d)]
            cc == calculateCoherence(extended, ls[defaultLens])
        IN  Return([lens |-> lens.name,
                    dimensions |-> extended,
                    coherence |-> cc.coherence,
                    qOptimized |-> cc.qOptimized,
                    confidence |-> assessConfidence(extended),
                    patterns |-> detectPatterns(extended, lens),
                    warnings |-> generateWarnings(extended, cc.coherence)])

perceive(ls, d, lensName) ==
    LET got == getLens(ls, lensName)
    IN  IF got.kind = "throw" THEN got
        ELSE
        LET lens == got.value
            extended == [psi |-> d.psi, rho |-> d.rho, q |-> d.q, f |-> d.f,
                         tau |-> estimateTemporalDepth(d),
                         lambda |-> estimateLensInterference(d)]
            cc == calculateCoherence(extended, lens)
        IN  Return([lens |-> lens.name,
                    dimensions |-> extended,
                    coherence |-> cc.coherence,
                    qOptimized |-> cc.qOptimized,
                    confidence |-> assessConfidence(extended),
                    patterns |-> detectPatterns(extended, lens),
                    warnings |-> generateWarnings(extended, cc.coherence)])

(***************************************************************************)
(* Bounds                                                                  *)
(***************************************************************************)
\* raw dimensions -0.1, 0, 0.1, ..., 0.1 * MaxDim: both sides of [0, 1]
MaxDim == 11
DimGrid == (-1)..MaxDim

\* direct optimizeQ calls: activations -0.05, 0, 0.05, ..., 1.10 and
\* constants -0.1, 0, 0.1, ..., 1.2
MaxQ == 22
MaxK == 12
QGrid == {50 * k : k \in (-1)..MaxQ}
KGrid == {100 * k : k \in (-1)..MaxK}

\* direct calculateCoherence calls: the six dimensions -0.5, 0, 0.5, ..., 0.5 * MaxExt
MaxExt == 3
ExtGrid == {5 * k : k \in (-1)..MaxExt}

UniformWeights == [psi |-> 250, rho |-> 250, q |-> 250, f |-> 250]
WeightVectors == {codeAnalysisLens.weights, UniformWeights}

\* identifiers a calibration is registered under, and identifiers asked for
RegisteredNames == {"code-analysis", "text-analysis"}
LensNames == RegisteredNames \cup {"does-not-exist"}
NameArgs == {<<>>} \cup {<<n>> : n \in LensNames}

\* calibrations registered in Spec (registerLens validates nothing: Km = 0 is accepted)
Calibrations ==
    {codeAnalysisLens} \cup
    {LensCalibration(n, km, 800, w) :
        n \in RegisteredNames, km \in {0, 200}, w \in WeightVectors}

\* calibrations passed to direct calculateCoherence calls
CoherenceCalibrations ==
    {LensCalibration("text-analysis", km, ki, UniformWeights) :
        km \in {0, 200}, ki \in {-400, 0, 800}}

\* calibrations registered in SpecPerceive
PerceiveCalibrations ==
    {LensCalibration("text-analysis", 200, 800, UniformWeights),
     LensCalibration("text-analysis", 500, 400, UniformWeights)}

RawDimensions == [psi : DimGrid, rho : DimGrid, q : DimGrid, f : DimGrid]
DiagonalDimensions == {[psi |-> v, rho |-> v, q |-> v, f |-> v] : v \in DimGrid}
ExtendedDimensions ==
    [psi : ExtGrid, rho : ExtGrid, q : ExtGrid, f : ExtGrid,
     tau : {100 * v : v \in ExtGrid}, lambda : {100 * v : v \in ExtGrid}]

NoCall == [op |-> "none"]
NoDimensions == [psi |-> 0, rho |-> 0, q |-> 0, f |-> 0]
NoKinetics == [q |-> 0, Km |-> 0, Ki |-> 0]

(***************************************************************************)
(* Operations                                                              *)
(***************************************************************************)
RegisterLens(c) ==
    /\ lenses' = registerLens(lenses, c)
    /\ last' = [op |-> "registerLens", calibration |-> c, outcome |-> Return(Void)]
    /\ UNCHANGED <<dimensions, kinetics, held, hunts, storage, statuses, python>>

GetLens(name) ==
    /\ last' = [op |-> "getLens", name |-> name, outcome |-> getLens(lenses, name)]
    /\ UNCHANGED <<lenses, dimensions, kinetics, held, hunts, storage, statuses, python>>

\* Faulty variant: an unknown identifier is registered with the default calibration.
Perceive_Registers(name) ==
    LET lensName == IF name = <<>> THEN defaultLens ELSE name[1]
    IN  /\ last' = [op |-> "perceive", name |-> name,
                    outcome |-> perceive(lenses, dimensions, name)]
        /\ lenses' = [n \in DOMAIN lenses \cup {lensName} |->
                         IF n \in DOMAIN lenses THEN lenses[n] ELSE lenses[defaultLens]]
        /\ UNCHANGED <<dimensions, kinetics, held, hunts, storage, statuses, python>>

Perceive(name) ==
    /\ last' = [op |-> "perceive", name |-> name,
                outcome |-> perceive(lenses, dimensions, name)]
    /\ UNCHANGED <<lenses, dimensions, kinetics, held, hunts, storage, statuses, python>>

CalculateCoherence(c) ==
    /\ last' = [op |-> "calculateCoherence", lens |-> c,
                outcome |-> Return(calculateCoherence(dimensions, c))]
    /\ UNCHANGED <<lenses, dimensions, kinetics, held, hunts, storage, statuses, python>>

OptimizeQ ==
    /\ last' = [op |-> "optimizeQ",
                outcome |-> Return(optimizeQ(kinetics.q, kinetics.Km, kinetics.Ki))]
    /\ UNCHANGED <<lenses, dimensions, kinetics, held, hunts, storage, statuses, python>>

\* The caller keeps the outcome perceive has just handed back.  perceive leaves
\* the registry alone and every other call replaces last, so lenses is still
\* the registry that call ran under.
Keep ==
    /\ last.op = "perceive"
    /\ held' = [name |-> last.name, outcome |-> last.outcome, lenses |-> lenses]
    /\ UNCHANGED <<lenses, dimensions, kinetics, last, hunts, storage, statuses, python>>

(***************************************************************************)
(* cerata-hunt-repo.tool.ts: CerataHuntRepoLogic                           *)
(***************************************************************************)
\* A repo string is the sequence of its parts between slashes, as
\* repo.split('/') gives them: "https://github.com/a/b" is
\* <<"https:", "", "github.com", "a", "b">>.
startsWithScheme(repo) ==
    Len(repo) >= 3 /\ repo[1] \in {"http:", "https:"} /\ repo[2] = ""

\* repo.match(/github\.com\/([^/]+)\/([^/]+)/): the positions of a part ending
\* in github.com that two non-empty parts follow (the grid's parts end in
\* github.com only when they are github.com)
matches(repo) ==
    {i \in 1..(Len(repo) - 2) :
        repo[i] = "github.com" /\ repo[i + 1] # "" /\ repo[i + 2] # ""}

Least(S) == CHOOSE i \in S : \A j \in S : i <= j

parseRepoIdentifier(repo) ==
    IF startsWithScheme(repo)
    THEN IF matches(repo) = {}
         THEN Throw(<<"InvalidParams", "Invalid GitHub URL">>)
         ELSE LET i == Least(matches(repo))
              IN  Return([owner |-> repo[i + 1], name |-> repo[i + 2]])
    ELSE IF Len(repo) # 2
         THEN Throw(<<"InvalidParams", "Invalid repository format">>)
         ELSE Return([owner |-> repo[1], name |-> repo[2]])

\* What awaiting fetchWithTimeout can bring: a response with a status and a
\* body, or a rejection (a network failure or the 10 s timeout) with a plain
\* Error or with an McpError.
Response(status, body) == [kind |-> "response", status |-> status, body |-> body]
Rejection(kind, error) == [kind |-> kind, status |-> 0, body |-> error]
NoResponse == Rejection("none", "none")

\* response.ok
ok(response) == response.status \in 200..299

\* the outcome of fetchGitHubRepo once the fetch has settled as response
fetchGitHubRepo(response) ==
    IF response.kind = "response"
    THEN IF ~ok(response)
         THEN IF response.status = 404
              THEN Throw(<<"InvalidParams", "Repository not found">>)
              ELSE IF response.status = 403
              THEN Throw(<<"RateLimited", "GitHub API rate limit exceeded">>)
              ELSE Throw(<<"InternalError", "GitHub API error">>)
         ELSE IF response.body = "json"
              THEN Return(response)
              \* response.json() rejects with a SyntaxError, which the catch wraps
              ELSE Throw(<<"InternalError", "Failed to fetch repository">>)
    \* catch: an McpError is rethrown as it is, anything else is wrapped
    ELSE IF response.body = "McpError"
    THEN Throw(<<"McpError", response.kind>>)
    ELSE Throw(<<"InternalError", "Failed to fetch repository">>)

\* One execution of execute.  pc is the await it is suspended at:
\*   "idle"      not called yet
\*   "fetching"  await this.fetchGitHubRepo(owner, name)
\*   "storing"   await this.storage.set(huntHistoryPrefix + huntId, huntRecord)
\*   "reading"   await this.storage.get(instanceStats)   in incrementHuntCount
\*   "writing"   await this.storage.set(instanceStats, newStats)
\*   "done"      returned or thrown
\* perceived counts the calls of roseGlass.perceive the execution has made.
IdleHunt ==
    [pc |-> "idle", lens |-> <<>>, repo |-> <<>>, response |-> NoResponse,
     perceived |-> 0, stats |-> <<>>, outcome |-> Void]

\* storage of the 'cerata-system' tenant: the ids under 'cerata:hunt:' and the
\* values under 'cerata:instance:stats' (its huntCount; lastHuntAt is written
\* with it), 'cerata:instance:id', 'cerata:instance:created' and
\* 'cerata:capabilities:manifest', each <<>> when the key is absent
EmptyStorage ==
    [hunts |-> {}, stats |-> <<>>, instanceId |-> <<>>, created |-> <<>>,
     manifest |-> <<>>]

Failed(h, error) == [h EXCEPT !.pc = "done", !.outcome = error]

\* executions of cerata_hunt_repo, the strings they are given for repo, the
\* lens arguments, and what their fetch can bring
MaxHunts == 2
Executions == 1..MaxHunts
RepoInputs ==
    {<<"facebook", "react">>, <<"react">>, <<"facebook", "react", "issues">>,
     <<"", "">>,
     <<"https:", "", "github.com", "facebook", "react">>,
     <<"https:", "", "github.com", "facebook">>,
     <<"http:", "", "example.com", "facebook", "react">>}
HuntLensArgs == {<<>>, <<"does-not-exist">>}
FetchOutcomes ==
    {Response(200, "json"), Response(200, "not json"), Response(404, "json"),
     Response(403, "json"), Response(500, "json"),
     Rejection("network", "Error"), Rejection("timeout", "Error"),
     Rejection("timeout", "McpError")}
HuntReadings ==
    {[psi |-> 6, rho |-> 8, q |-> 5, f |-> 7], [psi |-> 2, rho |-> 1, q |-> 9, f |-> 0]}
NoHunts == [e \in Executions |-> IdleHunt]

\* Faulty variant: the perception engine is called on entry, before the
\* identifier is parsed.
HuntExecute_PerceivesOnEntry(e, repo, lens) ==
    LET parsed == parseRepoIdentifier(repo)
        h == [hunts[e] EXCEPT !.lens = lens, !.perceived = 1]
    IN  /\ hunts[e].pc = "idle"
        /\ hunts' = [hunts EXCEPT ![e] =
                        IF parsed.kind = "throw" THEN Failed(h, parsed)
                        ELSE [h EXCEPT !.pc = "fetching", !.repo = <<parsed.value>>]]
        /\ last' = [op |-> "perceive", name |-> lens,
                    outcome |-> perceive(lenses, dimensions, lens)]
        /\ UNCHANGED <<lenses, dimensions, kinetics, held, storage, statuses, python>>

\* execute up to its first await: parse the identifier, start the fetch
HuntExecute(e, repo, lens) ==
    LET parsed == parseRepoIdentifier(repo)
        h == [hunts[e] EXCEPT !.lens = lens]
    IN  /\ hunts[e].pc = "idle"
        /\ hunts' = [hunts EXCEPT ![e] =
                        IF parsed.kind = "throw" THEN Failed(h, parsed)
                        ELSE [h EXCEPT !.pc = "fetching", !.repo = <<parsed.value>>]]
        /\ UNCHANGED <<lenses, dimensions, kinetics, last, held, storage, statuses, python>>

\* The metadata of a repository is represented by the reading extractDimensions
\* derives from it at the time of the call (dimensions); its arithmetic on
\* dates and counts is not modelled.
extractDimensions(repoData) == dimensions

\* Faulty variant: the hunt record is written as soon as the metadata has
\* arrived, before the perception engine is called.
HuntFetched_StoresFirst(e, response) ==
    LET fetched == fetchGitHubRepo(response)
        h == [hunts[e] EXCEPT !.response = response]
        perception == perceive(lenses, extractDimensions(response), h.lens)
    IN  /\ hunts[e].pc = "fetching"
        /\ IF fetched.kind = "throw"
           THEN /\ hunts' = [hunts EXCEPT ![e] = Failed(h, fetched)]
                /\ UNCHANGED <<last, storage>>
           ELSE /\ hunts' = [hunts EXCEPT ![e] =
                       IF perception.kind = "throw"
                       THEN Failed([h EXCEPT !.perceived = @ + 1], perception)
                       ELSE [h EXCEPT !.perceived = @ + 1, !.pc = "reading",
                                      !.outcome = perception]]
                /\ storage' = [storage EXCEPT !.hunts = @ \cup {e}]
                /\ last' = [op |-> "perceive", name |-> h.lens, outcome |-> perception]
        /\ UNCHANGED <<lenses, dimensions, kinetics, held, statuses, python>>

\* the fetch settles; on success execute runs on to its next await:
\* extractDimensions, roseGlass.perceive, and the start of storage.set
HuntFetched(e, response) ==
    LET fetched == fetchGitHubRepo(response)
        h == [hunts[e] EXCEPT !.response = response]
        perception == perceive(lenses, extractDimensions(response), h.lens)
    IN  /\ hunts[e].pc = "fetching"
        /\ IF fetched.kind = "throw"
           THEN /\ hunts' = [hunts EXCEPT ![e] = Failed(h, fetched)]
                /\ UNCHANGED last
           ELSE /\ hunts' = [hunts EXCEPT ![e] =
                       IF perception.kind = "throw"
                       THEN Failed([h EXCEPT !.perceived = @ + 1], perception)
                       ELSE [h EXCEPT !.perceived = @ + 1, !.pc = "storing",
                                      !.outcome = perception]]
                /\ last' = [op |-> "perceive", name |-> h.lens, outcome |-> perception]
        /\ UNCHANGED <<lenses, dimensions, kinetics, held, storage, statuses, python>>

\* storage.set of the hunt record settles; the hunt id (a fresh UUID) is
\* represented by the execution
HuntStored(e, resolved) ==
    /\ hunts[e].pc = "storing"
    /\ IF resolved
       THEN /\ storage' = [storage EXCEPT !.hunts = @ \cup {e}]
            /\ hunts' = [hunts EXCEPT ![e].pc = "reading"]
       ELSE /\ hunts' = [hunts EXCEPT ![e] =
                            Failed(@, Throw(<<"storage", "set">>))]
            /\ UNCHANGED storage
    /\ UNCHANGED <<lenses, dimensions, kinetics, last, held, statuses, python>>

\* incrementHuntCount: storage.get of the stats settles
HuntStatsRead(e, resolved) ==
    /\ hunts[e].pc = "reading"
    /\ hunts' = [hunts EXCEPT ![e] =
                    IF resolved THEN [@ EXCEPT !.pc = "writing", !.stats = storage.stats]
                    ELSE Failed(@, Throw(<<"storage", "get">>))]
    /\ UNCHANGED <<lenses, dimensions, kinetics, last, held, storage, statuses, python>>

\* incrementHuntCount: storage.set of huntCount: (stats?.huntCount ?? 0) + 1
\* settles, and execute returns
HuntStatsWritten(e, resolved) ==
    LET huntCount == IF hunts[e].stats = <<>> THEN 0 ELSE hunts[e].stats[1]
    IN  /\ hunts[e].pc = "writing"
        /\ IF resolved
           THEN /\ storage' = [storage EXCEPT !.stats = <<huntCount + 1>>]
                /\ hunts' = [hunts EXCEPT ![e].pc = "done"]
           ELSE /\ hunts' = [hunts EXCEPT ![e] =
                                Failed(@, Throw(<<"storage", "set">>))]
                /\ UNCHANGED storage
        /\ UNCHANGED <<lenses, dimensions, kinetics, last, held, statuses, python>>

(***************************************************************************)
(* cerata-get-status.tool.ts: getStatusLogic                               *)
(***************************************************************************)
\* One invocation of getStatusLogic.  pc is the await it is suspended at:
\*   "idle"         not called yet
\*   "getId"        await storage.get(instanceId)
\*   "setId"        await storage.set(instanceId, instanceId)        first boot
\*   "setCreated"   await storage.set(instanceCreated, createdAt)    first boot
\*   "setManifest"  await storage.set(capabilitiesManifest, ...)     first boot
\*   "getCreated"   await storage.get(instanceCreated)
\*   "getManifest"  await storage.get(capabilitiesManifest)
\*   "listTrials"   await storage.list(trialsPrefix)
\*   "listHunts"    await storage.list(huntHistoryPrefix)
\*   "health"       await storage.get('healthcheck')
\*   "done"         returned or thrown
\* instanceId and createdAt are the locals of those names (<<>> while
\* unassigned); crypto.randomUUID() of invocation s is represented by s and its
\* new Date().toISOString() by [clock |-> s].  writes counts the storage.set
\* calls of the invocation that took effect, and before is the set of
\* invocations that had finished when it started.
IdleStatus ==
    [pc |-> "idle", instanceId |-> <<>>, createdAt |-> <<>>, totalHunts |-> 0,
     writes |-> 0, before |-> {}, outcome |-> Void]

MaxStatus == 2
Invocations == 1..MaxStatus
NoStatuses == [s \in Invocations |-> IdleStatus]

\* stores a first boot can leave behind: complete, or with the instance id
\* only (its second write rejected, or the process stopped between the two)
BootedStorage ==
    [EmptyStorage EXCEPT !.instanceId = <<0>>, !.created = <<[clock |-> 0]>>,
                         !.manifest = <<"empty">>]
HalfBootedStorage == [EmptyStorage EXCEPT !.instanceId = <<0>>]
StatusStores == {EmptyStorage, BootedStorage, HalfBootedStorage}

StorageError(op) == Throw(<<"storage", op>>)

StatusStart(s) ==
    /\ statuses[s].pc = "idle"
    /\ statuses' = [statuses EXCEPT ![s].pc = "getId",
                       ![s].before = {t \in Invocations : statuses[t].pc = "done"}]
    /\ UNCHANGED <<lenses, dimensions, kinetics, last, held, hunts, storage, python>>

\* let instanceId = await storage.get(instanceId); if (!instanceId) first boot
StatusGotId(s, resolved) ==
    /\ statuses[s].pc = "getId"
    /\ statuses' = [statuses EXCEPT ![s] =
           IF ~resolved THEN Failed(@, StorageError("get"))
           ELSE IF storage.instanceId = <<>>
           THEN [@ EXCEPT !.pc = "setId", !.instanceId = <<s>>,
                          !.createdAt = <<[clock |-> s]>>]
           ELSE [@ EXCEPT !.pc = "getCreated", !.instanceId = storage.instanceId]]
    /\ UNCHANGED <<lenses, dimensions, kinetics, last, held, hunts, storage, python>>

\* the storage.set the invocation s is suspended at settles
StatusWrote(s, key, value, next, resolved) ==
    /\ IF resolved
       THEN /\ storage' = [storage EXCEPT ![key] = value]
            /\ statuses' = [statuses EXCEPT ![s].pc = next, ![s].writes = @ + 1]
       ELSE /\ statuses' = [statuses EXCEPT ![s] = Failed(@, StorageError("set"))]
            /\ UNCHANGED storage
    /\ UNCHANGED <<lenses, dimensions, kinetics, last, held, hunts, python>>

StatusSetId(s, resolved) ==
    /\ statuses[s].pc = "setId"
    /\ StatusWrote(s, "instanceId", statuses[s].instanceId, "setCreated", resolved)

StatusSetCreated(s, resolved) ==
    /\ statuses[s].pc = "setCreated"
    /\ StatusWrote(s, "created", statuses[s].createdAt, "setManifest", resolved)

StatusSetManifest(s, resolved) ==
    /\ statuses[s].pc = "setManifest"
    /\ StatusWrote(s, "manifest", <<"empty">>, "getManifest", resolved)

\* createdAt = storedCreatedAt ?? new Date().toISOString()
StatusGotCreated(s, resolved) ==
    /\ statuses[s].pc = "getCreated"
    /\ statuses' = [statuses EXCEPT ![s] =
           IF ~resolved THEN Failed(@, StorageError("get"))
           ELSE [@ EXCEPT !.pc = "getManifest",
                          !.createdAt = IF storage.created = <<>>
                                        THEN <<[clock |-> s]>> ELSE storage.created]]
    /\ UNCHANGED <<lenses, dimensions, kinetics, last, held, hunts, storage, python>>

\* storage.get(capabilitiesManifest), then storage.list(trialsPrefix): nothing
\* modelled here writes a trial, and the counts play no part in any property
StatusRead(s, from, next, resolved) ==
    /\ statuses[s].pc = from
    /\ statuses' = [statuses EXCEPT ![s] =
           IF ~resolved THEN Failed(@, StorageError("read"))
           ELSE [@ EXCEPT !.pc = next]]
    /\ UNCHANGED <<lenses, dimensions, kinetics, last, held, hunts, storage, python>>

StatusGotManifest(s, resolved) == StatusRead(s, "getManifest", "listTrials", resolved)

StatusListedTrials(s, resolved) == StatusRead(s, "listTrials", "listHunts", resolved)

\* totalHunts: huntKeys.keys.length
StatusListedHunts(s, resolved) ==
    /\ statuses[s].pc = "listHunts"
    /\ statuses' = [statuses EXCEPT ![s] =
           IF ~resolved THEN Failed(@, StorageError("read"))
           ELSE [@ EXCEPT !.pc = "health", !.totalHunts = Cardinality(storage.hunts)]]
    /\ UNCHANGED <<lenses, dimensions, kinetics, last, held, hunts, storage, python>>

\* the health check catches a rejection; the invocation returns
StatusHealth(s, resolved) ==
    /\ statuses[s].pc = "health"
    /\ statuses' = [statuses EXCEPT ![s].pc = "done",
           ![s].outcome = Return([instanceId |-> statuses[s].instanceId[1],
                                  createdAt |-> statuses[s].createdAt[1],
                                  totalHunts |-> statuses[s].totalHunts,
                                  healthy |-> resolved])]
    /\ UNCHANGED <<lenses, dimensions, kinetics, last, held, hunts, storage, python>>

(***************************************************************************)
(* python-executor.ts: executePythonScript, and the three lens tools that  *)
(* call it (cerata-belonging-lens, cerata-linguistic-lens,                 *)
(* cerata-wisdom-lens)                                                     *)
(***************************************************************************)
\* What a script prints is one of these texts; JSON.parse of each:
\*   "ok"        {"success": true, "data": ...}
\*   "failed"    {"success": false, "error": "analysis failed"}
\*   "failed?"   {"success": false}
\*   "{}"        an object without a success member
\*   "null"      the JSON value null
\*   "Traceback" not JSON
\*   ""          nothing (also what stdout holds before any data arrived)
Outputs == {"ok", "failed", "failed?", "{}", "null", "Traceback", ""}

Absent == <<>>

\* the value JSON.parse gives for the text null
JSONnull == [json |-> "null"]

JSONparse(text) ==
    CASE text = "ok" -> Return([success |-> <<TRUE>>, error |-> Absent])
      [] text = "failed" -> Return([success |-> <<FALSE>>, error |-> <<"analysis failed">>])
      [] text = "failed?" -> Return([success |-> <<FALSE>>, error |-> Absent])
      [] text = "{}" -> Return([success |-> Absent, error |-> Absent])
      [] text = "null" -> Return(JSONnull)
      [] OTHER -> Throw("SyntaxError")

\* A script is what the child will do: the code it exits with if it exits by
\* itself, what it prints, and whether SIGTERM ends it.  Exit codes are
\* written as the texts "0", "1", "-2" and "null" (ended by a signal).
Scripts == [exit : {"0", "1"}, output : Outputs, obeysTerm : BOOLEAN]

Tools == {"BelongingLens", "LinguisticLens", "WisdomLens"}

\* a promise that is not settled
Pending == [kind |-> "pending"]

\* One call of a lens tool, i.e. of executePythonScript:
\*   child     "none", "running", "unspawned" (spawn failed, 'error' not yet
\*             emitted), "exited" ('close' not yet emitted), "closed"
\*   code      the argument of 'close' ("" while the child has not exited)
\*   stdout    the text collected by the 'data' handler
\*   timer     "unset", "armed", "fired", "cleared"
\*   timedOut  the flag of that name
\*   signalled SIGTERM was sent to a running child
\*   promise   the promise executePythonScript returned
\*   settledBy the event that settled it: "close", "error" or "write"
\*   outcome   what the tool logic returned or threw
IdlePython ==
    [tool |-> "none", script |-> [exit |-> "0", output |-> "", obeysTerm |-> TRUE],
     child |-> "none", code |-> "", stdout |-> "", timer |-> "unset",
     timedOut |-> FALSE, signalled |-> FALSE, promise |-> Pending,
     settledBy |-> "none", outcome |-> Pending]

\* resolve and reject settle a pending promise and do nothing to a settled one
Settle(p, by, outcome) ==
    IF p.promise = Pending THEN [p EXCEPT !.promise = outcome, !.settledBy = by] ELSE p

clearTimeout(p) == IF p.timer = "armed" THEN [p EXCEPT !.timer = "cleared"] ELSE p

\* the tool logic calls executePythonScript: spawn, setTimeout, the handlers,
\* and the write of the input to stdin, which may throw
LensCall(tool, script, spawned, written) ==
    LET p0 == [python EXCEPT !.tool = tool, !.script = script,
                             !.child = IF spawned THEN "running" ELSE "unspawned",
                             !.timer = "armed"]
        \* catch (writeError): clearTimeout, child.kill(), reject
        p1 == Settle([clearTimeout(p0) EXCEPT !.signalled = spawned], "write",
                     Throw(<<"InternalError", "Failed to write input to Python script">>))
    IN  /\ python.child = "none"
        /\ python' = IF written THEN p0 ELSE p1
        /\ UNCHANGED <<lenses, dimensions, kinetics, last, held, hunts, storage, statuses>>

\* child.stdout.on('data'): the child has printed
PythonData ==
    /\ python.child = "running"
    /\ python.stdout = ""
    /\ python.script.output # ""
    /\ python' = [python EXCEPT !.stdout = python.script.output]
    /\ UNCHANGED <<lenses, dimensions, kinetics, last, held, hunts, storage, statuses>>

\* the setTimeout callback: timedOut = true; child.kill('SIGTERM')
TimerFires ==
    /\ python.timer = "armed"
    /\ python' = [python EXCEPT !.timer = "fired", !.timedOut = TRUE,
                                !.signalled = @ \/ python.child = "running"]
    /\ UNCHANGED <<lenses, dimensions, kinetics, last, held, hunts, storage, statuses>>

\* the child exits by itself
ChildExits ==
    /\ python.child = "running"
    /\ python' = [python EXCEPT !.child = "exited", !.code = python.script.exit]
    /\ UNCHANGED <<lenses, dimensions, kinetics, last, held, hunts, storage, statuses>>

\* SIGTERM ends a child that does not handle it
ChildKilled ==
    /\ python.child = "running"
    /\ python.signalled
    /\ python.script.obeysTerm
    /\ python' = [python EXCEPT !.child = "exited", !.code = "null"]
    /\ UNCHANGED <<lenses, dimensions, kinetics, last, held, hunts, storage, statuses>>

\* Faulty variant: the exit code is examined before the timedOut flag.
closeHandler_CodeFirst(p) ==
    LET parsed == JSONparse(p.stdout)
    IN  IF p.code # "0"
        THEN Throw(<<"InternalError", "Python script exited with code", p.code>>)
        ELSE IF p.timedOut
        THEN Throw(<<"Timeout", "Python script timed out">>)
        ELSE IF parsed.kind = "throw" \/ parsed.value = JSONnull
        THEN Throw(<<"InternalError", "Failed to parse Python script output as JSON">>)
        ELSE Return([success |-> parsed.value.success, error |-> parsed.value.error,
                     stdout |-> p.stdout])

\* what the 'close' handler passes to reject or resolve
closeHandler(p) ==
    LET parsed == JSONparse(p.stdout)
    IN  IF p.timedOut
        THEN Throw(<<"Timeout", "Python script timed out">>)
        ELSE IF p.code # "0"
        THEN Throw(<<"InternalError", "Python script exited with code", p.code>>)
        \* JSON.parse throws, or result.success is a TypeError on null: both
        \* land in catch (parseError)
        ELSE IF parsed.kind = "throw" \/ parsed.value = JSONnull
        THEN Throw(<<"InternalError", "Failed to parse Python script output as JSON">>)
        \* both branches of if (result.success) resolve {...result, stdout, stderr}
        ELSE Return([success |-> parsed.value.success, error |-> parsed.value.error,
                     stdout |-> p.stdout])

\* child.on('close')
PythonClose ==
    /\ python.child = "exited"
    /\ python' = Settle([clearTimeout(python) EXCEPT !.child = "closed"], "close",
                        closeHandler(python))
    /\ UNCHANGED <<lenses, dimensions, kinetics, last, held, hunts, storage, statuses>>

\* child.on('error'): the process could not be spawned; 'close' follows
PythonError ==
    /\ python.child = "unspawned"
    /\ python' = Settle([clearTimeout(python) EXCEPT !.child = "exited", !.code = "-2"],
                        "error",
                        Throw(<<"InternalError", "Failed to spawn Python process">>))
    /\ UNCHANGED <<lenses, dimensions, kinetics, last, held, hunts, storage, statuses>>

\* Faulty variant: a result without success is handed back as it is.
lensLogic_ReturnsAnything(tool, settled) ==
    settled

\* the tool logic after await executePythonScript(...): a rejection
\* propagates, !result.success throws, otherwise the result is returned
lensLogic(tool, settled) ==
    IF settled.kind = "throw" THEN settled
    ELSE IF settled.value.success # <<TRUE>>
    THEN Throw(<<"InternalError", tool, "perception failed",
                 IF settled.value.error = Absent THEN "Unknown error"
                 ELSE settled.value.error[1]>>)
    ELSE settled

LensSettled ==
    /\ python.promise # Pending
    /\ python.outcome = Pending
    /\ python' = [python EXCEPT !.outcome = lensLogic(python.tool, python.promise)]
    /\ UNCHANGED <<lenses, dimensions, kinetics, last, held, hunts, storage, statuses>>

(***************************************************************************)
(* Spec: the service; one raw reading per behaviour, any order of          *)
(* registerLens, getLens and perceive calls                                *)
(***************************************************************************)
Init ==
    /\ lenses = Constructed
    /\ dimensions \in DiagonalDimensions
    /\ kinetics = NoKinetics
    /\ last = NoCall
    /\ held = NoCall
    /\ hunts = NoHunts
    /\ storage = EmptyStorage
    /\ statuses = NoStatuses
    /\ python = IdlePython

Next ==
    \/ \E c \in Calibrations : RegisterLens(c)
    \/ \E name \in NameArgs : GetLens(name)
    \/ \E name \in NameArgs : Perceive(name)

Spec == Init /\ [][Next]_vars

(***************************************************************************)
(* SpecPerceive: perceive over the whole grid of raw readings              *)
(***************************************************************************)
InitPerceive ==
    /\ lenses = Constructed
    /\ dimensions \in RawDimensions
    /\ kinetics = NoKinetics
    /\ last = NoCall
    /\ held = NoCall
    /\ hunts = NoHunts
    /\ storage = EmptyStorage
    /\ statuses = NoStatuses
    /\ python = IdlePython

NextPerceive ==
    \/ \E c \in PerceiveCalibrations : RegisterLens(c)
    \/ \E name \in NameArgs : Perceive(name)

SpecPerceive == InitPerceive /\ [][NextPerceive]_vars

(***************************************************************************)
(* SpecCoherence: direct calls of calculateCoherence on any six            *)
(* dimensions, and perceive on the four raw ones among them                *)
(***************************************************************************)
InitCoherence ==
    /\ lenses = Constructed
    /\ dimensions \in ExtendedDimensions
    /\ kinetics = NoKinetics
    /\ last = NoCall
    /\ held = NoCall
    /\ hunts = NoHunts
    /\ storage = EmptyStorage
    /\ statuses = NoStatuses
    /\ python = IdlePython

NextCoherence ==
    \/ \E c \in CoherenceCalibrations \cup {codeAnalysisLens} : CalculateCoherence(c)
    \/ Perceive(<<>>)

SpecCoherence == InitCoherence /\ [][NextCoherence]_vars

(***************************************************************************)
(* SpecOptimize: direct calls of optimizeQ                                 *)
(***************************************************************************)
InitOptimize ==
    /\ lenses = Constructed
    /\ dimensions = NoDimensions
    /\ kinetics \in [q : QGrid, Km : KGrid, Ki : KGrid]
    /\ last = NoCall
    /\ held = NoCall
    /\ hunts = NoHunts
    /\ storage = EmptyStorage
    /\ statuses = NoStatuses
    /\ python = IdlePython

NextOptimize == OptimizeQ

SpecOptimize == InitOptimize /\ [][NextOptimize]_vars

(***************************************************************************)
(* SpecCaller: a caller that keeps one of the reports it was handed and    *)
(* goes on registering calibrations and calling perceive                   *)
(***************************************************************************)
InitCaller ==
    /\ lenses = Constructed
    /\ dimensions \in DiagonalDimensions
    /\ kinetics = NoKinetics
    /\ last = NoCall
    /\ held = NoCall
    /\ hunts = NoHunts
    /\ storage = EmptyStorage
    /\ statuses = NoStatuses
    /\ python = IdlePython

NextCaller ==
    \/ \E c \in Calibrations : RegisterLens(c)
    \/ \E name \in NameArgs : Perceive(name)
    \/ Keep

SpecCaller == InitCaller /\ [][NextCaller]_vars

(***************************************************************************)
(* SpecHunt: executions of cerata_hunt_repo, interleaved at their awaits   *)
(***************************************************************************)
InitHunt ==
    /\ lenses = Constructed
    /\ dimensions \in HuntReadings
    /\ kinetics = NoKinetics
    /\ last = NoCall
    /\ held = NoCall
    /\ hunts = NoHunts
    /\ storage = EmptyStorage
    /\ statuses = NoStatuses
    /\ python = IdlePython

NextHunt ==
    \/ \E e \in Executions, repo \in RepoInputs, lens \in HuntLensArgs :
           HuntExecute(e, repo, lens)
    \/ \E e \in Executions, response \in FetchOutcomes : HuntFetched(e, response)
    \/ \E e \in Executions, resolved \in BOOLEAN : HuntStored(e, resolved)
    \/ \E e \in Executions, resolved \in BOOLEAN : HuntStatsRead(e, resolved)
    \/ \E e \in Executions, resolved \in BOOLEAN : HuntStatsWritten(e, resolved)

SpecHunt == InitHunt /\ [][NextHunt]_vars

(***************************************************************************)
(* SpecStatus: invocations of cerata_get_status, interleaved at their      *)
(* awaits, on a store that is empty or was left by an earlier first boot   *)
(***************************************************************************)
InitStatus ==
    /\ lenses = Constructed
    /\ dimensions = NoDimensions
    /\ kinetics = NoKinetics
    /\ last = NoCall
    /\ held = NoCall
    /\ hunts = NoHunts
    /\ storage \in StatusStores
    /\ statuses = NoStatuses
    /\ python = IdlePython

NextStatus ==
    \/ \E s \in Invocations : StatusStart(s)
    \/ \E s \in Invocations, resolved \in BOOLEAN : StatusGotId(s, resolved)
    \/ \E s \in Invocations, resolved \in BOOLEAN : StatusSetId(s, resolved)
    \/ \E s \in Invocations, resolved \in BOOLEAN : StatusSetCreated(s, resolved)
    \/ \E s \in Invocations, resolved \in BOOLEAN : StatusSetManifest(s, resolved)
    \/ \E s \in Invocations, resolved \in BOOLEAN : StatusGotCreated(s, resolved)
    \/ \E s \in Invocations, resolved \in BOOLEAN : StatusGotManifest(s, resolved)
    \/ \E s \in Invocations, resolved \in BOOLEAN : StatusListedTrials(s, resolved)
    \/ \E s \in Invocations, resolved \in BOOLEAN : StatusListedHunts(s, resolved)
    \/ \E s \in Invocations, resolved \in BOOLEAN : StatusHealth(s, resolved)

SpecStatus == InitStatus /\ [][NextStatus]_vars

(***************************************************************************)
(* SpecPython: one call of a lens tool, with any script and any order of   *)
(* the child's and the timer's events.  SpecPythonFair adds what the       *)
(* runtime guarantees: an armed timer fires, a child that does not handle  *)
(* SIGTERM dies of it, 'error' and 'close' are emitted for a child that    *)
(* failed to spawn or has exited, and the awaiting tool logic resumes.     *)
(* A child is not bound to exit by itself.                                 *)
(***************************************************************************)
InitPython ==
    /\ lenses = Constructed
    /\ dimensions = NoDimensions
    /\ kinetics = NoKinetics
    /\ last = NoCall
    /\ held = NoCall
    /\ hunts = NoHunts
    /\ storage = EmptyStorage
    /\ statuses = NoStatuses
    /\ python = IdlePython

NextPython ==
    \/ \E tool \in Tools, script \in Scripts, spawned, written \in BOOLEAN :
           LensCall(tool, script, spawned, written)
    \/ PythonData
    \/ TimerFires
    \/ ChildExits
    \/ ChildKilled
    \/ PythonClose
    \/ PythonError
    \/ LensSettled

SpecPython == InitPython /\ [][NextPython]_vars

SpecPythonFair ==
    /\ SpecPython
    /\ WF_vars(TimerFires)
    /\ WF_vars(ChildKilled)
    /\ WF_vars(PythonClose)
    /\ WF_vars(PythonError)
    /\ WF_vars(LensSettled)

(***************************************************************************)
(* Properties                                                              *)
(***************************************************************************)
Returned(op) == last.op = op /\ last.outcome.kind = "return"

\* x rounded to four decimal places is k4 / 10^4:  k4/10^4 - 0.00005 <= x < k4/10^4 + 0.00005
RoundsTo(x, k4) == NumLt(x, k4 * 100 + 50) /\ ~NumLt(x, k4 * 100 - 50)

\* C1: getLens(name) and perceive(raw, name) with a supplied identifier that is
\* not registered fail with the 'Unknown lens' error; they never return the
\* default calibration or a report computed with it.  (Neither call changes the
\* registry, so `lenses` is the registry the call saw.)
C1_UnknownLensFails ==
    (/\ last.op \in {"getLens", "perceive"}
     /\ last.name # <<>>
     /\ last.name[1] \notin DOMAIN lenses)
    => /\ last.outcome.kind = "throw"
       /\ last.outcome.error = <<"Unknown lens", last.name[1]>>

\* C1 witness: perceive asked for an unregistered identifier, after a second
\* calibration was registered, and failed.
C1_Witness ==
    /\ last.op = "perceive"
    /\ last.name = <<"does-not-exist">>
    /\ DOMAIN lenses = RegisteredNames
    /\ last.outcome.kind = "throw"

\* C2: a calibration is always stored under 'code-analysis', and getLens()
\* without an identifier never fails and returns that calibration.
C2_DefaultAlwaysResolves ==
    /\ "code-analysis" \in DOMAIN lenses
    /\ (last.op = "getLens" /\ last.name = <<>>)
       => last.outcome = Return(lenses["code-analysis"])

\* C2 witness: getLens() returned a calibration that a registerLens call had
\* stored under 'code-analysis' in place of the built-in one.
C2_Witness ==
    /\ Returned("getLens")
    /\ last.name = <<>>
    /\ last.outcome.value # codeAnalysisLens
    /\ last.outcome.value.name = "code-analysis"

\* C3: registerLens(c) stores c under c.name and changes the calibration of no
\* other name; nothing but registerLens changes the registry; getLens(n) returns
\* what is stored under n.  So from registerLens(c) until the next registerLens
\* under c.name, getLens(c.name) returns exactly c.
C3_RegisterLastWriteWins ==
    [][ /\ last'.op = "registerLens"
           => LET c == last'.calibration
              IN  /\ DOMAIN lenses' = (DOMAIN lenses) \cup {c.name}
                  /\ lenses'[c.name] = c
                  /\ \A n \in (DOMAIN lenses) \ {c.name} : lenses'[n] = lenses[n]
        /\ last'.op # "registerLens" => lenses' = lenses
        /\ (/\ last'.op = "getLens"
            /\ last'.name # <<>>
            /\ last'.name[1] \in DOMAIN lenses')
           => last'.outcome = Return(lenses'[last'.name[1]])
      ]_vars

\* C3 witness: getLens('code-analysis') returned a calibration that replaced the
\* built-in one, while another name is registered too.
C3_Witness ==
    /\ Returned("getLens")
    /\ last.name = <<"code-analysis">>
    /\ last.outcome.value # codeAnalysisLens
    /\ "text-analysis" \in DOMAIN lenses

\* the coherence a completed calculateCoherence or perceive call returned
HasCoherence == Returned("calculateCoherence") \/ Returned("perceive")
LastCoherence == last.outcome.value.coherence

\* C4: the coherence returned by calculateCoherence, and the one in every
\* PerceptionReport, is a number in [0, 4], for every six dimensions (in or out
\* of [0, 1]) and every calibration.
C4_CoherenceBounded ==
    HasCoherence
    => /\ IsFinite(LastCoherence)
       /\ LastCoherence.m >= 0
       /\ NumLe(LastCoherence, 4000000)

\* C4 witness: all six dimensions equal 1 under the built-in calibration: the
\* raw sum is 4 + qOptimized, about 4.408, and the coherence returned is 4.
C4_Witness ==
    /\ Returned("calculateCoherence")
    /\ last.lens = codeAnalysisLens
    /\ dimensions = [psi |-> 10, rho |-> 10, q |-> 10, f |-> 10,
                     tau |-> 1000, lambda |-> 1000]
    /\ last.outcome.value.qOptimized.m = 408338
    /\ LastCoherence = MicroNum(4000000)

\* the sum in 10^-6 of the terms of the coherence formula other than qOptimized
C5_Terms(d) ==
    d.psi * 100000 + (d.rho * d.psi + d.f * d.psi) * 10000 + d.tau * d.lambda

Clamp04(x) ==
    IF ~NumLt(x, 4000000) THEN MicroNum(4000000)
    ELSE IF NumLe(x, 0) THEN MicroNum(0)
    ELSE x

\* C5: calculateCoherence returns qOptimized = optimizeQ(q, Km, Ki) and
\* coherence = clamp(psi + rho*psi + qOptimized + f*psi + tau*lambda, 0, 4);
\* with psi = 0 the coherence is clamp(qOptimized + tau*lambda, 0, 4) whatever
\* rho and f are.
C5_CoherenceFormula ==
    Returned("calculateCoherence")
    => LET d == dimensions
           r == last.outcome.value
           bio == last.lens.biologicalParams
       IN  /\ r.qOptimized = optimizeQ(d.q * 100, bio.Km, bio.Ki)
           /\ r.coherence = Clamp04(AddMicro(r.qOptimized, C5_Terms(d)))
           /\ d.psi = 0
              => r.coherence = Clamp04(AddMicro(r.qOptimized, d.tau * d.lambda))

\* C5 witness: psi = 0 with rho, f, q, tau and lambda all positive: the
\* coherence is qOptimized + tau*lambda, strictly between 0 and 4.
C5_Witness ==
    /\ Returned("calculateCoherence")
    /\ dimensions.psi = 0
    /\ dimensions.rho > 0 /\ dimensions.f > 0 /\ dimensions.q > 0
    /\ dimensions.tau > 0 /\ dimensions.lambda > 0
    /\ LastCoherence = AddMicro(last.outcome.value.qOptimized,
                                dimensions.tau * dimensions.lambda)
    /\ LastCoherence.m > last.outcome.value.qOptimized.m
    /\ last.outcome.value.qOptimized.m > 0
    /\ NumLt(LastCoherence, 4000000)

\* the precondition of C6: an activation in (0, 1) and two positive constants
C6_Case ==
    /\ Returned("optimizeQ")
    /\ kinetics.q > 0 /\ kinetics.q < 1000
    /\ kinetics.Km > 0 /\ kinetics.Ki > 0

\* C6 as stated: for 0 < a < 1 and positive Km, Ki, optimizeQ(a, Km, Ki) < a.
C6_PureDamping ==
    C6_Case => NumLt(last.outcome.value, kinetics.q * 1000)

\* C6 amended: for 0 < a < 1 and positive Km, Ki the result lies strictly
\* between 0 and 1, and it is less than a exactly when the denominator
\* Km + a + a*a/Ki exceeds 1 (otherwise the input is not damped).
C6_DampingIffDenominatorAboveOne ==
    C6_Case
    => LET a == kinetics.q
           Km == kinetics.Km
           Ki == kinetics.Ki
           x == last.outcome.value
       IN  /\ ~NumLe(x, 0)
           /\ NumLt(x, 1000000)
           /\ (NumLt(x, a * 1000) <=> (Km * Ki + a * Ki + a * a > 1000 * Ki))

\* C6 witness: optimizeQ(0.5, 0.2, 0.8) is below 0.5 (denominator 1.0125).
C6_Witness ==
    /\ C6_Case
    /\ kinetics = [q |-> 500, Km |-> 200, Ki |-> 800]
    /\ NumLt(last.outcome.value, 500000)

\* C7 as stated: with activation > 0 and Km <= 0 or Ki <= 0, optimizeQ fails
\* ('invalid kinetic constants') instead of returning a number.
C7_InvalidConstantsRejected ==
    (/\ last.op = "optimizeQ"
     /\ kinetics.q > 0
     /\ (kinetics.Km <= 0 \/ kinetics.Ki <= 0))
    => last.outcome.kind = "throw"

\* C8: for every activation <= 0 and every Km, Ki (zero and negative ones
\* included) optimizeQ returns exactly 0 and does not fail.
C8_NonPositiveActivationIsZero ==
    (last.op = "optimizeQ" /\ kinetics.q <= 0)
    => last.outcome = Return(MicroNum(0))

\* C8 witness: a negative activation with a zero and a negative constant.
C8_Witness ==
    /\ Returned("optimizeQ")
    /\ kinetics.q < 0
    /\ kinetics.Km = 0
    /\ kinetics.Ki < 0
    /\ last.outcome.value = MicroNum(0)

\* a / (Km + a + a*a/Ki) where that quotient is a real number
C9_Defined(a, Km, Ki) == Ki # 0 /\ Km * Ki + a * Ki + a * a # 0
C9_Quotient(a, Km, Ki) ==
    LET num == a * Ki
        den == Km * Ki + a * Ki + a * a
    IN  IF den > 0 THEN Frac(num, den) ELSE Frac(0 - num, 0 - den)

\* the part of C9 that does not depend on the two quoted values: for a > 0 the
\* result is a' / (Km + a' + a'*a'/Ki) with a' = a below 1 and a' = 0.999 from
\* 1 on, so every activation >= 1 gives the result of 0.999
C9_Formula ==
    (Returned("optimizeQ") /\ kinetics.q > 0)
    => LET a == IF kinetics.q < 1000 THEN kinetics.q ELSE 999
       IN  /\ C9_Defined(a, kinetics.Km, kinetics.Ki)
              => last.outcome.value = C9_Quotient(a, kinetics.Km, kinetics.Ki)
           /\ kinetics.q >= 1000
              => last.outcome.value = optimizeQ(999, kinetics.Km, kinetics.Ki)

C9_Example(q, k4) ==
    (Returned("optimizeQ") /\ kinetics = [q |-> q, Km |-> 200, Ki |-> 800])
    => RoundsTo(last.outcome.value, k4)

\* C9 as stated: the formula above, optimizeQ(0.5, 0.2, 0.8) = 0.4938 and
\* optimizeQ(1, 0.2, 0.8) = 0.4085, each to four decimal places.
C9_AsStated ==
    C9_Formula /\ C9_Example(500, 4938) /\ C9_Example(1000, 4085)

\* C9 amended: the formula above, optimizeQ(0.5, 0.2, 0.8) = 0.4938 and
\* optimizeQ(1, 0.2, 0.8) = 0.4083, each to four decimal places.
C9_ClampedQuotient ==
    C9_Formula /\ C9_Example(500, 4938) /\ C9_Example(1000, 4083)

\* C9 witness: optimizeQ(1, 0.2, 0.8) returned 799200/1957201 = 0.408338...
C9_Witness ==
    /\ Returned("optimizeQ")
    /\ kinetics = [q |-> 1000, Km |-> 200, Ki |-> 800]
    /\ last.outcome.value = Frac(799200, 1957201)

\* C10: every report carries tau = clamp01(0.6*rho + 0.4*psi) and
\* lambda = clamp01(0.5*(1 - psi)*q), both in [0, 1]: functions of psi, rho and
\* q alone, whatever f and the calibration are.
C10_DerivedDimensions ==
    Returned("perceive")
    => LET d == last.outcome.value.dimensions
           tau == 6 * dimensions.rho + 4 * dimensions.psi                \* in 1/100
           lambda == 5 * (10 - dimensions.psi) * dimensions.q            \* in 1/1000
       IN  /\ d.tau = (IF tau > 100 THEN 1000 ELSE IF tau < 0 THEN 0 ELSE 10 * tau)
           /\ d.lambda = (IF lambda > 1000 THEN 1000 ELSE IF lambda < 0 THEN 0 ELSE lambda)
           /\ d.tau \in 0..1000
           /\ d.lambda \in 0..1000

\* C10 witness: a report under a calibration other than the default whose tau
\* is strictly inside (0, 1) with rho # psi, and whose lambda is positive.
C10_Witness ==
    /\ Returned("perceive")
    /\ last.name = <<"text-analysis">>
    /\ dimensions = [psi |-> 2, rho |-> 9, q |-> 5, f |-> 0]
    /\ last.outcome.value.dimensions.tau = 620
    /\ last.outcome.value.dimensions.lambda = 200

\* C11: every report of perceive carries raw dimensions psi, rho, q and f in
\* [0, 1], readings outside that interval having been clamped or rejected.
C11_RawDimensionsInRange ==
    Returned("perceive")
    => \A k \in {"psi", "rho", "q", "f"} :
           last.outcome.value.dimensions[k] \in 0..10

\* C12 as stated: two perceive calls on the same service with the same raw
\* dimensions and the same identifier (or both without one), made at any two
\* points of a sequence of registerLens and perceive calls, have identical outcomes.
C12_SameArgumentsSameReport ==
    (last.op = "perceive" /\ held # NoCall /\ held.name = last.name)
    => last.outcome = held.outcome

\* C12 amended: they have identical outcomes whenever the registry resolves the
\* identifier to the same calibration (or fails to resolve it) at both points.
C12_SameCalibrationSameReport ==
    (/\ last.op = "perceive"
     /\ held # NoCall
     /\ held.name = last.name
     /\ getLens(held.lenses, held.name) = getLens(lenses, last.name))
    => last.outcome = held.outcome

\* C12 witness: a report for "code-analysis" kept before "text-analysis" was
\* registered, and the same report returned again after that registration.
C12_Witness ==
    /\ Returned("perceive")
    /\ held # NoCall
    /\ last.name = <<"code-analysis">>
    /\ held.name = last.name
    /\ dimensions.q = 5
    /\ DOMAIN held.lenses = {"code-analysis"}
    /\ DOMAIN lenses = RegisteredNames
    /\ held.lenses["code-analysis"] = lenses["code-analysis"]
    /\ last.outcome = held.outcome

\* the fields of a report other than the lens identifier
C13_ButLens(report) ==
    [k \in {"dimensions", "coherence", "qOptimized", "confidence", "patterns", "warnings"}
        |-> report[k]]

Has(seq, tag) == \E i \in DOMAIN seq : seq[i] = tag

C14_Opposites ==
    {<<"high-consistency", "low-consistency">>, <<"battle-tested", "immature">>,
     <<"high-activation", "dormant">>, <<"well-integrated", "isolated">>,
     <<"deep-history", "ephemeral">>}

\* C14: no report carries both the high and the low tag of one dimension.
C14_NoOppositeTags ==
    Returned("perceive")
    => \A pair \in C14_Opposites :
           ~(Has(last.outcome.value.patterns, pair[1])
                /\ Has(last.outcome.value.patterns, pair[2]))

\* C14 witness: raw values exactly on the thresholds 0.3, 0.5 and 0.7; the
\* report tags psi low, q and f high, and rho and tau neither way.
C14_Witness ==
    /\ Returned("perceive")
    /\ dimensions = [psi |-> 3, rho |-> 5, q |-> 7, f |-> 7]
    /\ Has(last.outcome.value.patterns, "low-consistency")
    /\ Has(last.outcome.value.patterns, "high-activation")
    /\ Has(last.outcome.value.patterns, "well-integrated")
    /\ ~Has(last.outcome.value.patterns, "battle-tested")
    /\ ~Has(last.outcome.value.patterns, "ephemeral")

\* the fourteen tags in the order of the claim, each with its condition on the
\* report's own dimensions
C15_Table(d) ==
    << [tag |-> "high-consistency",      on |-> d.psi >= 7],
       [tag |-> "low-consistency",       on |-> d.psi <= 3],
       [tag |-> "battle-tested",         on |-> d.rho >= 7],
       [tag |-> "immature",              on |-> d.rho <= 3],
       [tag |-> "high-activation",       on |-> d.q >= 7],
       [tag |-> "dormant",               on |-> d.q <= 2],
       [tag |-> "well-integrated",       on |-> d.f >= 7],
       [tag |-> "isolated",              on |-> d.f <= 3],
       [tag |-> "deep-history",          on |-> d.tau >= 700],
       [tag |-> "ephemeral",             on |-> d.tau <= 300],
       [tag |-> "observer-interference", on |-> d.lambda >= 500],
       [tag |-> "stable-mature",         on |-> d.psi >= 7 /\ d.rho >= 7],
       [tag |-> "chaotic-active",        on |-> d.psi <= 3 /\ d.q >= 7],
       [tag |-> "ecosystem-anchor",      on |-> d.f >= 7 /\ d.rho >= 7] >>

C15_IsOn(row) == row.on

C15_Expected(d) ==
    LET rows == SelectSeq(C15_Table(d), C15_IsOn)
    IN  [i \in 1..Len(rows) |-> rows[i].tag]

\* C15: the patterns of a report are exactly the tags of the table whose
\* condition holds, in the table's order, each once.
C15_PatternsInOrder ==
    Returned("perceive")
    => LET r == last.outcome.value
       IN  /\ r.patterns = C15_Expected(r.dimensions)
           /\ \A i, j \in DOMAIN r.patterns : r.patterns[i] = r.patterns[j] => i = j

\* C15 witness: psi 0.2, rho 0.8, q 0.9, f 0.7 gives tau 0.56 and lambda 0.36,
\* hence single tags followed by chaotic-active and ecosystem-anchor.
C15_Witness ==
    /\ Returned("perceive")
    /\ dimensions = [psi |-> 2, rho |-> 8, q |-> 9, f |-> 7]
    /\ last.outcome.value.patterns =
           <<"low-consistency", "battle-tested", "high-activation",
             "well-integrated", "chaotic-active", "ecosystem-anchor">>

\* the six warnings in the order of the claim, each with its condition on the
\* report's own dimensions and coherence
C16_Table(r) ==
    LET d == r.dimensions
    IN  << [text |-> "Low overall coherence - substrate may be unstable",
            on |-> NumLt(r.coherence, Micro)],
           [text |-> "High activation with low consistency - potential instability",
            on |-> d.q >= 7 /\ d.psi <= 3],
           [text |-> "Isolated despite maturity - integration issues",
            on |-> d.f <= 3 /\ d.rho >= 5],
           [text |-> "High observer interference - perception may be distorted",
            on |-> d.lambda >= 600],
           [text |-> "Extreme activation detected - biological optimization applied",
            on |-> d.q >= 9],
           [text |-> "Shallow temporal depth despite accumulated wisdom - anomaly",
            on |-> d.tau <= 200 /\ d.rho >= 5] >>

C16_IsOn(row) == row.on

C16_Expected(r) ==
    LET rows == SelectSeq(C16_Table(r), C16_IsOn)
    IN  [i \in 1..Len(rows) |-> rows[i].text]

C17_Adjusted(d) == ((d.psi + d.rho + d.q + d.f) * (2000 - d.lambda)) \div 8

\* a raw reading with the given sum of psi, rho, q, f (tenths) whose report has
\* the given lambda (thousandths)
C17_Case(sum, lambda) ==
    /\ Returned("perceive")
    /\ dimensions.psi + dimensions.rho + dimensions.q + dimensions.f = sum
    /\ last.outcome.value.dimensions.lambda = lambda

\* C17: confidence is high iff adjusted >= 0.6, medium iff 0.35 <= adjusted < 0.6
\* and low otherwise, where adjusted = mean(psi, rho, q, f) * (1 - 0.5 * lambda);
\* mean 0.2 with lambda 0 is low, mean 0.9 with lambda 0 is high, and mean 0.5
\* with lambda 0.4 has adjusted 0.4 and is medium.
C17_ConfidenceThresholds ==
    Returned("perceive")
    => LET r == last.outcome.value
           d == r.dimensions
           \* 8 * adjusted * 10^4, an integer, so the comparisons are exact
           a8 == (d.psi + d.rho + d.q + d.f) * (2000 - d.lambda)
       IN  /\ r.confidence = "high" <=> a8 >= 8 * 6000
           /\ r.confidence = "medium" <=> (a8 >= 8 * 3500 /\ a8 < 8 * 6000)
           /\ r.confidence = "low" <=> a8 < 8 * 3500
           /\ C17_Case(8, 0) => r.confidence = "low"
           /\ C17_Case(36, 0) => r.confidence = "high"
           /\ C17_Case(20, 400) => (C17_Adjusted(d) = 4000 /\ r.confidence = "medium")

\* C17 witness: psi 0, rho 0.6, q 0.8, f 0.6 has mean 0.5 and lambda 0.4, hence
\* adjusted 0.4; the report is medium.
C17_Witness ==
    /\ C17_Case(20, 400)
    /\ dimensions = [psi |-> 0, rho |-> 6, q |-> 8, f |-> 6]
    /\ last.outcome.value.confidence = "medium"

\* the identifier perceive resolves: the default one when none is supplied
C18_Identifier == IF last.name = <<>> THEN "code-analysis" ELSE last.name[1]

\* C18: perceive resolves the calibration first and fails on an unknown
\* identifier without a report; otherwise the report names the resolved
\* calibration, carries the four raw inputs unchanged with the estimators' tau
\* and lambda, has the coherence and qOptimized of calculateCoherence on those
\* extended dimensions under that calibration, and the warnings of that coherence.
C18_ReportConsistent ==
    last.op = "perceive"
    => IF C18_Identifier \notin DOMAIN lenses
       THEN last.outcome = Throw(<<"Unknown lens", C18_Identifier>>)
       ELSE LET r == last.outcome.value
                calibration == lenses[C18_Identifier]
                cc == calculateCoherence(r.dimensions, calibration)
            IN  /\ last.outcome.kind = "return"
                /\ r.lens = calibration.name
                /\ \A k \in {"psi", "rho", "q", "f"} : r.dimensions[k] = dimensions[k]
                /\ r.dimensions.tau = estimateTemporalDepth(dimensions)
                /\ r.dimensions.lambda = estimateLensInterference(dimensions)
                /\ r.coherence = cc.coherence
                /\ r.qOptimized = cc.qOptimized
                /\ r.warnings = generateWarnings(r.dimensions, r.coherence)

\* C18 witness: a report under "text-analysis" registered with Km 0.5 and
\* Ki 0.4 on a reading with psi above 1: the raw value is carried as given and
\* qOptimized is not the default calibration's.
C18_Witness ==
    /\ Returned("perceive")
    /\ last.name = <<"text-analysis">>
    /\ lenses["text-analysis"].biologicalParams = [Km |-> 500, Ki |-> 400]
    /\ dimensions = [psi |-> 11, rho |-> 5, q |-> 5, f |-> 5]
    /\ last.outcome.value.lens = "text-analysis"
    /\ last.outcome.value.dimensions.psi = 11
    /\ last.outcome.value.qOptimized
           # calculateCoherence(last.outcome.value.dimensions, codeAnalysisLens).qOptimized

\* C19: getLens and perceive, returning or failing, leave the registry as it
\* was: the same identifiers, the same calibration under each, and nothing
\* else stored (the default identifier is a constant of the service).
C19_QueriesLeaveRegistry ==
    [][last'.op \in {"getLens", "perceive"}
           => /\ DOMAIN lenses' = DOMAIN lenses
              /\ \A n \in DOMAIN lenses : lenses'[n] = lenses[n]
              /\ lenses' = lenses]_vars

\* C19 witness: perceive failed on "text-analysis" after "code-analysis" had
\* been re-registered; the registry still holds that one calibration only.
C19_Witness ==
    /\ last.op = "perceive"
    /\ last.name = <<"text-analysis">>
    /\ last.outcome.kind = "throw"
    /\ DOMAIN lenses = {"code-analysis"}
    /\ lenses["code-analysis"] = LensCalibration("code-analysis", 0, 800, UniformWeights)

\* the fetch of execution h has brought the repository's metadata
C20_Fetched(h) == h.response.kind = "response" /\ h.response.status = 200
                      /\ h.response.body = "json"

\* C20: an execution of cerata_hunt_repo calls roseGlass.perceive only after
\* its identifier was parsed and its fetch brought the metadata; an execution
\* whose identifier does not parse, or whose fetch throws, times out or brings
\* a response that is not OK (404, 403, other), has failed and has never
\* called perceive.
C20_PerceiveAfterFetch ==
    \A e \in Executions :
        LET h == hunts[e]
        IN  /\ h.perceived > 0 => (h.repo # <<>> /\ C20_Fetched(h))
            /\ (h.pc # "idle" /\ h.repo = <<>>)
                   => (h.pc = "done" /\ h.outcome.kind = "throw" /\ h.perceived = 0)
            /\ (h.response # NoResponse /\ ~C20_Fetched(h))
                   => (h.pc = "done" /\ h.outcome.kind = "throw" /\ h.perceived = 0)

\* C20 witness: one execution has failed on a 404 without calling perceive
\* while another, given a URL, has fetched, perceived and gone on to store.
C20_Witness ==
    \E e1, e2 \in Executions :
        /\ hunts[e1].response = Response(404, "json")
        /\ hunts[e1].pc = "done"
        /\ hunts[e1].outcome = Throw(<<"InvalidParams", "Repository not found">>)
        /\ hunts[e1].perceived = 0
        /\ hunts[e2].repo = <<[owner |-> "facebook", name |-> "react"]>>
        /\ hunts[e2].perceived = 1
        /\ hunts[e2].pc = "storing"
        /\ last.op = "perceive"

\* a/b < c/d for a, c >= 0 and b, d > 0, by comparing integer parts and then
\* the reciprocals of the remainders (no product is formed)
RECURSIVE FracLess(_, _, _, _)
FracLess(a, b, c, d) ==
    IF a \div b # c \div d THEN a \div b < c \div d
    ELSE IF c % d = 0 THEN FALSE
    ELSE IF a % b = 0 THEN TRUE
    ELSE FracLess(d, c % d, b, a % b)

\* x < y for two finite Nums
NumLess(x, y) == x.m < y.m \/ (x.m = y.m /\ FracLess(x.r, x.d, y.r, y.d))

\* a clamped call optimizeQ(q, Km, Ki), q >= 1, with positive constants
C21_ClampedCall ==
    /\ Returned("optimizeQ")
    /\ kinetics.q >= 1000
    /\ kinetics.Km > 0
    /\ kinetics.Ki > 0

\* the activations 0.001, 0.002, ..., 0.998 below the clamp value
C21_Below == 1..(ClampedQ - 1)

StatusReturned(s) == statuses[s].pc = "done" /\ statuses[s].outcome.kind = "return"

\* C22: cerata_get_status is read-only and idempotent: no invocation performs
\* a storage write, whatever the store holds, and of two successive
\* invocations the later returns the instanceId and createdAt of the earlier.
C22_ReadOnlyIdempotent ==
    /\ \A s \in Invocations : statuses[s].writes = 0
    /\ \A s \in Invocations : \A t \in statuses[s].before :
           (StatusReturned(s) /\ StatusReturned(t))
               => /\ statuses[s].outcome.value.instanceId = statuses[t].outcome.value.instanceId
                  /\ statuses[s].outcome.value.createdAt = statuses[t].outcome.value.createdAt

\* C23: executePythonScript honours its timeout: every call eventually
\* settles, whatever the child does, a child that has not closed when the
\* timer fires being sent SIGTERM and the promise then rejecting with Timeout.
C23_EveryCallSettles ==
    /\ (python.child # "none") ~> (python.promise # Pending)
    /\ (python.timedOut /\ python.signalled /\ python.promise = Pending)
           ~> (python.promise.kind = "throw" /\ python.promise.error[1] = "Timeout")

C24_ValidJSON == {"ok", "failed", "failed?", "{}", "null"}

\* the precedence of the close handler, with the texts in objects as those
\* after which the promise resolves
C24_Precedence(objects) ==
    python.settledBy = "close"
    => LET promise == python.promise
       IN  IF python.timedOut
           THEN promise.kind = "throw" /\ promise.error[1] = "Timeout"
           ELSE IF python.code # "0"
           THEN promise.kind = "throw" /\ promise.error[1] = "InternalError"
           ELSE IF python.stdout \notin objects
           THEN promise.kind = "throw" /\ promise.error[1] = "InternalError"
           ELSE /\ promise.kind = "return"
                /\ promise.value.stdout = python.stdout
                /\ python.stdout = "ok" => promise.value.success = <<TRUE>>
                /\ python.stdout \in {"failed", "failed?"} => promise.value.success = <<FALSE>>

\* C24 as stated: when 'close' settles the promise, a fired timer rejects with
\* Timeout; otherwise a non-zero or null code rejects with InternalError;
\* otherwise stdout that is not valid JSON rejects with InternalError; otherwise
\* the promise resolves with the parsed object and the raw stdout, a parsed
\* success: false included.
C24_ClosePrecedence == C24_Precedence(C24_ValidJSON)

\* C24 amended: the same, with stdout holding the JSON value null rejected
\* like stdout that is not JSON.
C24_ClosePrecedenceNullRejected == C24_Precedence(C24_ValidJSON \ {"null"})

\* C24 witness: the timer fired between the child's exit with code 0 and its
\* 'close'; stdout holds a success result, and the promise rejected with Timeout.
C24_Witness ==
    /\ python.settledBy = "close"
    /\ python.timedOut
    /\ ~python.signalled
    /\ python.code = "0"
    /\ python.stdout = "ok"
    /\ python.promise = Throw(<<"Timeout", "Python script timed out">>)

\* C25: a lens tool never returns a result whose success is not true: when
\* executePythonScript resolved with success false the tool logic threw an
\* InternalError carrying the analyzer's error text, and what it returned is
\* the resolved result with success true.
C25_NeverReturnsFailure ==
    python.outcome # Pending
    => LET promise == python.promise
           outcome == python.outcome
       IN  /\ outcome.kind = "return"
              => outcome.value.success = <<TRUE>> /\ outcome = promise
           /\ (promise.kind = "return" /\ promise.value.success = <<FALSE>>)
              => /\ outcome.kind = "throw"
                 /\ outcome.error[1] = "InternalError"
                 /\ outcome.error[2] = python.tool
                 /\ promise.value.error # Absent
                    => outcome.error[4] = promise.value.error[1]

\* C25 witness: the analyzer reported a failure with a text, the promise
\* resolved with it, and the tool logic threw.
C25_Witness ==
    /\ python.promise.kind = "return"
    /\ python.promise.value.success = <<FALSE>>
    /\ python.promise.value.error = <<"analysis failed">>
    /\ python.outcome = Throw(<<"InternalError", python.tool, "perception failed",
                                "analysis failed">>)

\* the raw reading perceive was given lies in [0, 1] in every dimension
InUnitRange(d) == \A k \in {"psi", "rho", "q", "f"} : d[k] \in 0..10

\* C26: for raw dimensions all in [0, 1] lambda is at most 0.5, the warning
\* 'High observer interference' (lambda >= 0.6) is never in the report, and the
\* pattern 'observer-interference' (lambda >= 0.5) is in it only when psi = 0
\* and q = 1.
C26_InterferenceBounded ==
    (Returned("perceive") /\ InUnitRange(dimensions))
    => LET r == last.outcome.value
       IN  /\ r.dimensions.lambda <= 500
           /\ ~Has(r.warnings, "High observer interference - perception may be distorted")
           /\ Has(r.patterns, "observer-interference")
              => dimensions.psi = 0 /\ dimensions.q = 10

\* C26 witness: psi 0 and q 1 give lambda 0.5: the pattern without the warning.
C26_Witness ==
    /\ Returned("perceive")
    /\ InUnitRange(dimensions)
    /\ dimensions.psi = 0
    /\ dimensions.q = 10
    /\ last.outcome.value.dimensions.lambda = 500
    /\ Has(last.outcome.value.patterns, "observer-interference")
    /\ ~Has(last.outcome.value.warnings,
            "High observer interference - perception may be distorted")

\* C27: for raw dimensions all in [0, 1] the warning 'Shallow temporal depth
\* despite accumulated wisdom - anomaly' is never in the report, tau being at
\* least 0.3 whenever rho is at least 0.5.
C27_NoShallowDepthWarning ==
    (Returned("perceive") /\ InUnitRange(dimensions))
    => LET r == last.outcome.value
       IN  /\ ~Has(r.warnings,
                   "Shallow temporal depth despite accumulated wisdom - anomaly")
           /\ dimensions.rho >= 5 => r.dimensions.tau >= 300

\* C27 witness: rho 0.5 and psi 0, the least tau the wisdom condition allows
\* (0.3), and no such warning.
C27_Witness ==
    /\ Returned("perceive")
    /\ InUnitRange(dimensions)
    /\ dimensions.rho = 5
    /\ dimensions.psi = 0
    /\ last.outcome.value.dimensions.tau = 300
    /\ ~Has(last.outcome.value.warnings,
            "Shallow temporal depth despite accumulated wisdom - anomaly")

\* the execution returned its output
HuntSucceeded(e) == hunts[e].pc = "done" /\ hunts[e].outcome.kind = "return"

\* C28: once the executions of cerata_hunt_repo that were started, run one
\* after another or interleaved at their awaits, have all completed
\* successfully, the stored huntCount equals the number of stored hunt records.
C28_CountMatchesRecords ==
    (/\ \E e \in Executions : HuntSucceeded(e)
     /\ \A e \in Executions : hunts[e].pc = "idle" \/ HuntSucceeded(e))
    => storage.stats = <<Cardinality(storage.hunts)>>

\* C29: storage is written only by an execution whose perceive call has
\* returned a report: a step of an execution that is parsing or fetching, the
\* step in which it fails there or in perceive included, leaves storage as it
\* was, and every step that changes storage belongs to an execution holding
\* its report.
C29_WritesOnlyAfterReport ==
    [][\A e \in Executions :
           hunts'[e].pc # hunts[e].pc
           => /\ hunts[e].pc \in {"idle", "fetching"} => storage' = storage
              /\ storage' # storage
                 => /\ hunts[e].perceived = 1
                    /\ hunts[e].outcome.kind = "return"
                    /\ hunts[e].outcome.value.lens = defaultLens]_vars

\* C29 witness: an execution asked for an unregistered lens has fetched,
\* called perceive and failed with its error, and nothing is in storage.
C29_Witness ==
    \E e \in Executions :
        /\ hunts[e].lens = <<"does-not-exist">>
        /\ hunts[e].response = Response(200, "json")
        /\ hunts[e].perceived = 1
        /\ hunts[e].pc = "done"
        /\ hunts[e].outcome = getLens(lenses, <<"does-not-exist">>)
        /\ hunts[e].outcome.kind = "throw"
        /\ storage = EmptyStorage

\* C30: the instance identity cerata_get_status reports is stable: the
\* invocations that have returned, one after another or interleaved at their
\* awaits (several first-boot invocations on an empty store included), have
\* all returned the same instanceId, which is the one left in storage.
C30_StableInstanceId ==
    \A s, t \in Invocations :
        (StatusReturned(s) /\ StatusReturned(t))
        => /\ statuses[s].outcome.value.instanceId = statuses[t].outcome.value.instanceId
           /\ (\A u \in Invocations : statuses[u].pc \in {"idle", "done"})
              => storage.instanceId = <<statuses[s].outcome.value.instanceId>>

====
